---- MODULE Spec2Model ----
(***************************************************************************)
(* Model of async_wrr_queue: the weighted round robin queue WrrQueue<T>    *)
(* (src/src/wrr_queue.rs) over Instance<T> (src/src/instance.rs), for both *)
(* lock backends ("blocking" and "tokio", chosen at build time).           *)
(*                                                                         *)
(* Indices stored in select_queue are the 0-based indices of the code;     *)
(* TLA+ sequences are 1-based, so a lookup of index i reads element i+1.   *)
(* Option<X> is modelled as a sequence of length 0 (None) or 1 (Some).     *)
(***************************************************************************)
EXTENDS Integers, Sequences, FiniteSets, TLC

\* ------------------------------------------------------------------ bounds
MaxWeight == 2
MaxInstances == 2
MaxBatch == 2
MaxSelects == 4

Data == {"a", "b"}
Features == {"blocking", "tokio"}

\* ------------------------------------------------------------------- state
VARIABLES
    feature,        \* the lock backend compiled in (cargo feature)
    instance_list,  \* WrrQueue.instance_list : Vec<Instance<T>>
    cur_idx,        \* WrrQueue.cur_idx : AtomicUsize
    select_queue,   \* WrrQueue.select_queue : RwLock<Vec<usize>>
    panicked,       \* the calling thread panicked (unwrap of None, % 0)
    last,           \* the last public call: its name, the bool or Option
                    \* it returned, and cur_idx as the call found it
    selects,        \* calls of select that took a counter value since
                    \* construction or the last clear_instance
    fresh,          \* instance_list has not changed since cur_idx was 0
    compiler,       \* the locals of a recalculate_queue in progress:
                    \* cur_weight_vec, queue and the iterations left
    twin,           \* a second queue, built with the other lock backend and
                    \* given the same calls: its fields and its last result
    pc,             \* per thread: the statement its call has reached
    local,          \* per thread: the call, its locals and its result
    lock,           \* select_queue's RwLock: the threads holding a read
                    \* guard and the thread holding the write guard
    published       \* the queue handed over by the last completed
                    \* recalculate_queue or clear_instance

\* the second queue
tvars == <<twin>>

\* the threads
cvars == <<pc, local, lock, published>>

vars == <<feature, instance_list, cur_idx, select_queue, panicked, last,
          selects, fresh, compiler, twin, pc, local, lock, published>>

\* ---------------------------------------------------------------- Instance
new_with_weight(d, w) == [data |-> d, weight |-> w]

\* #[derive(PartialEq)] on Instance: every field is compared
InstanceEq(x, y) == x.data = y.data /\ x.weight = y.weight

Candidates == {new_with_weight(d, w) : d \in Data, w \in 1..MaxWeight}

\* Vec::contains
contains(list, x) == \E i \in 1..Len(list) : InstanceEq(list[i], x)

\* Vec::remove(index), index 0-based
remove(list, index) ==
    [i \in 1..(Len(list) - 1) |-> IF i <= index THEN list[i] ELSE list[i + 1]]

\* iter().position(|x| *x == instance) : Option<usize>
position(list, x) ==
    IF contains(list, x)
    THEN <<(CHOOSE i \in 1..Len(list) :
              /\ InstanceEq(list[i], x)
              /\ \A j \in 1..(i - 1) : ~InstanceEq(list[j], x)) - 1>>
    ELSE <<>>

\* ------------------------------------------------------- schedule compiler
RECURSIVE gcd(_, _)
gcd(a, b) == IF b = 0 THEN a ELSE gcd(b, a % b)

lcm(a, b) == IF a = 0 \/ b = 0 THEN 0 ELSE a * (b \div gcd(a, b))

weight_vec(list) == [i \in 1..Len(list) |-> list[i].weight]

RECURSIVE fold_lcm(_, _)
fold_lcm(acc, ws) ==
    IF ws = <<>> THEN acc ELSE fold_lcm(lcm(acc, Head(ws)), Tail(ws))

\* mutation: select_instance that prefers the later index on equal counters
RECURSIVE select_loop_last_on_ties(_, _, _, _, _)
select_loop_last_on_ties(w, cur, i, selected, acc) ==
    IF i >= Len(w)
    THEN [selected |-> selected,
          cur_weight |-> [cur EXCEPT ![selected + 1] = @ - acc]]
    ELSE LET cur1 == [cur EXCEPT ![i + 1] = @ + w[i + 1]]
             acc1 == acc + w[i + 1]
             sel1 == IF cur1[selected + 1] <= cur1[i + 1] THEN i ELSE selected
         IN  select_loop_last_on_ties(w, cur1, i + 1, sel1, acc1)

\* mutation: select_instance without cur_weight[selected] -= acc
RECURSIVE select_loop_no_spend(_, _, _, _, _)
select_loop_no_spend(w, cur, i, selected, acc) ==
    IF i >= Len(w)
    THEN [selected |-> selected, cur_weight |-> cur]
    ELSE LET cur1 == [cur EXCEPT ![i + 1] = @ + w[i + 1]]
             acc1 == acc + w[i + 1]
             sel1 == IF cur1[selected + 1] < cur1[i + 1] THEN i ELSE selected
         IN  select_loop_no_spend(w, cur1, i + 1, sel1, acc1)

\* the for loop of select_instance, i and selected 0-based
RECURSIVE select_loop(_, _, _, _, _)
select_loop(w, cur, i, selected, acc) ==
    IF i >= Len(w)
    THEN [selected |-> selected,
          cur_weight |-> [cur EXCEPT ![selected + 1] = @ - acc]]
    ELSE LET cur1 == [cur EXCEPT ![i + 1] = @ + w[i + 1]]
             acc1 == acc + w[i + 1]
             sel1 == IF cur1[selected + 1] < cur1[i + 1] THEN i ELSE selected
         IN  select_loop(w, cur1, i + 1, sel1, acc1)

select_instance(w, cur) ==
    IF w = <<>>
    THEN [selected |-> 0, cur_weight |-> cur]
    ELSE select_loop(w, cur, 0, 0, 0)

\* for _ in 0..=lcm { queue.push(select_instance(..)) }, n iterations left
RECURSIVE build_queue(_, _, _, _)
build_queue(w, cur, n, queue) ==
    IF n = 0
    THEN queue
    ELSE LET r == select_instance(w, cur)
         IN  build_queue(w, r.cur_weight, n - 1, Append(queue, r.selected))

calculated_queue(list) ==
    LET w == weight_vec(list)
    IN  build_queue(w, w, fold_lcm(1, w) + 1, <<>>)

\* ------------------------------------------------- uncalculated operations
\* a queue value: the three fields of WrrQueue
Queue(l, c, q) == [list |-> l, idx |-> c, queue |-> q]

insert_uncalculated(list, x) ==
    IF contains(list, x)
    THEN [list |-> list, res |-> FALSE]
    ELSE [list |-> Append(list, x), res |-> TRUE]

\* mutation: clear_instance_uncalculated without the reset of cur_idx
clear_instance_uncalculated_keeps_cursor == Queue(<<>>, cur_idx, <<>>)

clear_instance_uncalculated == Queue(<<>>, 0, <<>>)

\* res: the returned bool; panic: Option::unwrap() on None
delete_uncalculated(list, x) ==
    IF contains(list, x)
    THEN [list |-> list, res |-> FALSE, panic |-> FALSE]
    ELSE LET index == position(list, x)
         IN  IF index = <<>>
             THEN [list |-> list, res |-> FALSE, panic |-> TRUE]
             ELSE [list |-> remove(list, index[1]), res |-> TRUE, panic |-> FALSE]

\* instance_list.into_iter().map(insert_uncalculated).all(|t| t):
\* the iterator is lazy and all() stops at the first false
RECURSIVE insert_all(_, _)
insert_all(list, batch) ==
    IF batch = <<>>
    THEN [list |-> list, res |-> TRUE]
    ELSE LET r == insert_uncalculated(list, Head(batch))
         IN  IF r.res THEN insert_all(r.list, Tail(batch)) ELSE r

\* mutation: recalculate_queue that returns before it publishes the queue
recalculate_queue_unpublished(f, q) == q

\* mutation: recalculate_queue that also rewinds cur_idx
recalculate_queue_rewinds(f, q) ==
    IF f = "tokio" /\ q.list = <<>>
    THEN clear_instance_uncalculated
    ELSE Queue(q.list, 0, calculated_queue(q.list))

recalculate_queue(f, q) ==
    IF f = "tokio" /\ q.list = <<>>
    THEN clear_instance_uncalculated
    ELSE Queue(q.list, q.idx, calculated_queue(q.list))

\* ------------------------------------------------------------------ actions
This == Queue(instance_list, cur_idx, select_queue)

Call(op, res, sel, idx) == [op |-> op, res |-> res, sel |-> sel, idx |-> idx]

\* the queue value q becomes the state (q is evaluated once)
Publish(q) ==
    \E v \in {q} :
        /\ instance_list' = v.list
        /\ cur_idx' = v.idx
        /\ select_queue' = v.queue

\* no recalculate_queue is in progress
Idle == [active |-> FALSE, cur |-> <<>>, queue |-> <<>>, left |-> 0]

Threads == {"t1", "t2"}

\* the locals of a thread that has made no call
NoCall ==
    [op |-> "none", arg |-> <<>>, idx |-> 0, slot |-> 0, full |-> <<>>,
     queue |-> <<>>, res |-> FALSE, sel |-> <<>>]

Unlocked == [readers |-> {}, writer |-> {}]

\* no thread has called
InitThreads ==
    /\ pc = [t \in Threads |-> "idle"]
    /\ local = [t \in Threads |-> NoCall]
    /\ lock = Unlocked
    /\ published = <<>>

\* the result record of a call on a queue value
Result(q, res, sel, panic) == [q |-> q, res |-> res, sel |-> sel, panic |-> panic]

InitTwin == twin = Result(Queue(<<>>, 0, <<>>), FALSE, <<>>, FALSE)

Init ==
    /\ compiler = Idle
    /\ InitTwin
    /\ InitThreads
    /\ feature \in Features
    /\ instance_list = <<>>
    /\ cur_idx = 0
    /\ select_queue = <<>>
    /\ panicked = FALSE
    /\ last = Call("new", FALSE, <<>>, 0)
    /\ selects = 0
    /\ fresh = TRUE

insert(x) ==
    /\ ~panicked
    /\ \E r \in {insert_uncalculated(instance_list, x)} :
           /\ Publish(recalculate_queue(feature, Queue(r.list, cur_idx, select_queue)))
           /\ last' = Call("insert", r.res, <<>>, cur_idx)
           /\ fresh' = IF r.list = instance_list THEN fresh ELSE (cur_idx = 0)
    /\ UNCHANGED <<feature, panicked, selects>>

insert_many(batch) ==
    /\ ~panicked
    /\ \E r \in {insert_all(instance_list, batch)} :
           /\ Publish(recalculate_queue(feature, Queue(r.list, cur_idx, select_queue)))
           /\ last' = Call("insert_many", r.res, <<>>, cur_idx)
           /\ fresh' = IF r.list = instance_list THEN fresh ELSE (cur_idx = 0)
    /\ UNCHANGED <<feature, panicked, selects>>

select ==
    /\ ~panicked
    /\ IF instance_list = <<>>
       THEN /\ last' = Call("select", FALSE, <<>>, cur_idx)
            /\ UNCHANGED <<instance_list, cur_idx, select_queue, panicked, selects>>
       ELSE /\ cur_idx' = cur_idx + 1
            /\ selects' = selects + 1
            /\ UNCHANGED <<instance_list, select_queue>>
            /\ IF Len(select_queue) = 0
               THEN /\ panicked' = TRUE
                    /\ last' = Call("select", FALSE, <<>>, cur_idx)
               ELSE LET selected_seq_idx == cur_idx % Len(select_queue)
                        selected_instance_idx == select_queue[selected_seq_idx + 1]
                    IN  /\ panicked' = FALSE
                        /\ last' = Call("select", FALSE,
                                        IF selected_instance_idx < Len(instance_list)
                                        THEN <<instance_list[selected_instance_idx + 1]>>
                                        ELSE <<>>,
                                        cur_idx)
    /\ UNCHANGED <<feature, fresh>>

clear_instance ==
    /\ ~panicked
    /\ Publish(clear_instance_uncalculated)
    /\ last' = Call("clear_instance", FALSE, <<>>, cur_idx)
    /\ selects' = 0
    /\ fresh' = TRUE
    /\ UNCHANGED <<feature, panicked>>

delete_instance(x) ==
    /\ ~panicked
    /\ \E r \in {delete_uncalculated(instance_list, x)} :
           /\ panicked' = r.panic
           /\ last' = Call("delete_instance", r.res, <<>>, cur_idx)
           /\ IF r.res
              THEN /\ Publish(recalculate_queue(feature, Queue(r.list, cur_idx, select_queue)))
                   /\ fresh' = (cur_idx = 0)
              ELSE UNCHANGED <<instance_list, cur_idx, select_queue, fresh>>
    /\ UNCHANGED <<feature, selects>>

Batches == UNION {[1..n -> Candidates] : n \in 0..MaxBatch}

NextInsert ==
    \E x \in Candidates :
        /\ Len(instance_list) < MaxInstances
        /\ insert(x)
        /\ UNCHANGED <<compiler, tvars, cvars>>

NextInsertMany ==
    \E batch \in Batches :
        /\ Len(insert_all(instance_list, batch).list) <= MaxInstances
        /\ insert_many(batch)
        /\ UNCHANGED <<compiler, tvars, cvars>>

NextSelect == cur_idx < MaxSelects /\ select /\ UNCHANGED <<compiler, tvars, cvars>>

NextClear == clear_instance /\ UNCHANGED <<compiler, tvars, cvars>>

NextDelete == \E x \in Candidates : delete_instance(x) /\ UNCHANGED <<compiler, tvars, cvars>>

Next == NextInsert \/ NextInsertMany \/ NextSelect \/ NextClear \/ NextDelete

Spec == Init /\ [][Next]_vars

\* ------------------------------------------- the scenario of complex_test
MaxComplexSelects == 40

ComplexAB == <<new_with_weight("a", 1), new_with_weight("b", 2)>>
ComplexC == new_with_weight("c", 3)
ComplexDE == <<new_with_weight("d", 5), new_with_weight("e", 2)>>
ComplexList == ComplexAB \o <<ComplexC>> \o ComplexDE
ComplexExpected ==
    <<"d", "c", "b", "d", "e", "d", "c", "a", "d", "b", "e", "c", "d">>

ComplexInsertAB ==
    instance_list = <<>> /\ insert_many(ComplexAB) /\ UNCHANGED <<compiler, tvars, cvars>>

ComplexInsertC ==
    instance_list = ComplexAB /\ insert(ComplexC) /\ UNCHANGED <<compiler, tvars, cvars>>

ComplexInsertDE ==
    /\ instance_list = ComplexAB \o <<ComplexC>>
    /\ insert_many(ComplexDE)
    /\ UNCHANGED <<compiler, tvars, cvars>>

ComplexSelect == cur_idx < MaxComplexSelects /\ select /\ UNCHANGED <<compiler, tvars, cvars>>

NextComplex ==
    ComplexInsertAB \/ ComplexInsertC \/ ComplexInsertDE \/ ComplexSelect

SpecComplex == Init /\ [][NextComplex]_vars

\* ------------------------------- the schedule compiler, one iteration a step
\* recalculate_queue on a list that insert_many has just filled: the inputs
\* are all candidate lists of 1..MaxCompileLen entries with weights in
\* 1..MaxCompileWeight.
MaxCompileLen == 3
MaxCompileWeight == 3
MaxCompileSelects == 8

CompileData == <<"a", "b", "c", "d", "e">>

CompileLists ==
    UNION {{[i \in 1..n |-> new_with_weight(CompileData[i], ws[i])] :
               ws \in [1..n -> 1..MaxCompileWeight]} : n \in 1..MaxCompileLen}

\* lcm, queue and cur_weight_vec as the loop is entered
CompileStart(list) ==
    [active |-> TRUE, cur |-> weight_vec(list), queue |-> <<>>,
     left |-> fold_lcm(1, weight_vec(list)) + 1]

InitCompile ==
    /\ feature \in Features
    /\ instance_list \in CompileLists
    /\ cur_idx = 0
    /\ select_queue = <<>>
    /\ panicked = FALSE
    /\ last = Call("insert_many", TRUE, <<>>, 0)
    /\ selects = 0
    /\ fresh = TRUE
    /\ compiler = CompileStart(instance_list)
    /\ InitTwin
    /\ InitThreads

\* one iteration of for _ in 0..=lcm
CompileStep ==
    /\ compiler.active
    /\ compiler.left > 0
    /\ \E r \in {select_instance(weight_vec(instance_list), compiler.cur)} :
           compiler' = [compiler EXCEPT !.cur = r.cur_weight,
                                        !.queue = Append(@, r.selected),
                                        !.left = @ - 1]
    /\ UNCHANGED <<feature, instance_list, cur_idx, select_queue, panicked,
                   last, selects, fresh, tvars, cvars>>

\* the write-lock section: the queue replaces the published one
CompilePublish ==
    /\ compiler.active
    /\ compiler.left = 0
    /\ select_queue' = compiler.queue
    /\ compiler' = Idle
    /\ UNCHANGED <<feature, instance_list, cur_idx, panicked, last, selects,
                   fresh, tvars, cvars>>

CompileSelect ==
    /\ ~compiler.active
    /\ cur_idx < MaxCompileSelects
    /\ select
    /\ UNCHANGED <<compiler, tvars, cvars>>

NextCompile == CompileStep \/ CompilePublish \/ CompileSelect

SpecCompile == InitCompile /\ [][NextCompile]_vars

\* ------------------------------------------- one queue under each backend
\* The calls as functions of the backend f and the queue value q, so that a
\* second queue, built with the other backend, can be given the calls the
\* first one gets.
insert_on(f, q, x) ==
    LET r == insert_uncalculated(q.list, x)
    IN  Result(recalculate_queue(f, Queue(r.list, q.idx, q.queue)), r.res, <<>>, FALSE)

insert_many_on(f, q, batch) ==
    LET r == insert_all(q.list, batch)
    IN  Result(recalculate_queue(f, Queue(r.list, q.idx, q.queue)), r.res, <<>>, FALSE)

select_on(f, q) ==
    IF q.list = <<>>
    THEN Result(q, FALSE, <<>>, FALSE)
    ELSE IF Len(q.queue) = 0
         THEN Result(Queue(q.list, q.idx + 1, q.queue), FALSE, <<>>, TRUE)
         ELSE LET selected_seq_idx == q.idx % Len(q.queue)
                  selected_instance_idx == q.queue[selected_seq_idx + 1]
              IN  Result(Queue(q.list, q.idx + 1, q.queue), FALSE,
                         IF selected_instance_idx < Len(q.list)
                         THEN <<q.list[selected_instance_idx + 1]>>
                         ELSE <<>>,
                         FALSE)

clear_instance_on(f, q) == Result(clear_instance_uncalculated, FALSE, <<>>, FALSE)

delete_instance_on(f, q, x) ==
    LET r == delete_uncalculated(q.list, x)
    IN  IF r.res
        THEN Result(recalculate_queue(f, Queue(r.list, q.idx, q.queue)), TRUE, <<>>, FALSE)
        ELSE Result(q, FALSE, <<>>, r.panic)

\* the backend the second queue is built with
Other(f) == IF f = "blocking" THEN "tokio" ELSE "blocking"

TwinInsert ==
    \E x \in Candidates :
        /\ Len(instance_list) < MaxInstances
        /\ ~twin.panic
        /\ insert(x)
        /\ twin' = insert_on(Other(feature), twin.q, x)
        /\ UNCHANGED <<compiler, cvars>>

TwinInsertMany ==
    \E batch \in Batches :
        /\ Len(insert_all(instance_list, batch).list) <= MaxInstances
        /\ ~twin.panic
        /\ insert_many(batch)
        /\ twin' = insert_many_on(Other(feature), twin.q, batch)
        /\ UNCHANGED <<compiler, cvars>>

TwinSelect ==
    /\ cur_idx < MaxSelects
    /\ ~twin.panic
    /\ select
    /\ twin' = select_on(Other(feature), twin.q)
    /\ UNCHANGED <<compiler, cvars>>

TwinClear ==
    /\ ~twin.panic
    /\ clear_instance
    /\ twin' = clear_instance_on(Other(feature), twin.q)
    /\ UNCHANGED <<compiler, cvars>>

TwinDelete ==
    \E x \in Candidates :
        /\ ~twin.panic
        /\ delete_instance(x)
        /\ twin' = delete_instance_on(Other(feature), twin.q, x)
        /\ UNCHANGED <<compiler, cvars>>

NextTwin == TwinInsert \/ TwinInsertMany \/ TwinSelect \/ TwinClear \/ TwinDelete

SpecTwin == Init /\ [][NextTwin]_vars

\* --------------------------------------- threads, one statement at a step
\* Threads share one queue. Every public method takes &mut self, so a call
\* starts only when no other call on the queue is in progress; inside a call
\* every statement is a step, and the guards of select_queue's RwLock are
\* taken and dropped where the code takes and drops them.
SharedInstances == {new_with_weight("a", 1), new_with_weight("b", 2)}

SharedBatches ==
    {<<>>, <<new_with_weight("a", 1), new_with_weight("b", 2)>>,
     <<new_with_weight("b", 2), new_with_weight("b", 2)>>}

Running(t) == pc[t] \notin {"idle", "panicked"}

\* some call holds the exclusive borrow of the queue
Borrowed == \E t \in Threads : Running(t)

\* what no thread step touches: the backend and the bookkeeping of the
\* specifications above
Quiet == UNCHANGED <<feature, panicked, last, selects, fresh, compiler, tvars>>

\* thread t calls op with argument arg
Begin(t, op, arg, first) ==
    /\ Quiet
    /\ pc[t] = "idle"
    /\ ~Borrowed
    /\ pc' = [pc EXCEPT ![t] = first]
    /\ local' = [local EXCEPT ![t] = [NoCall EXCEPT !.op = op, !.arg = arg]]
    /\ UNCHANGED <<instance_list, cur_idx, select_queue, lock, published>>

\* the call of thread t returns res and sel; its other locals are dropped
Return(t, res, sel) ==
    /\ Quiet
    /\ pc' = [pc EXCEPT ![t] = "idle"]
    /\ local' = [local EXCEPT ![t] = [NoCall EXCEPT !.op = local[t].op,
                                                    !.res = res, !.sel = sel]]

Goto(t, label) == Quiet /\ pc' = [pc EXCEPT ![t] = label]

BeginSelect(t) == cur_idx < MaxSelects /\ Begin(t, "select", <<>>, "select_is_empty")

BeginInsert(t) ==
    \E x \in SharedInstances : Begin(t, "insert", <<x>>, "insert_push")

BeginInsertMany(t) ==
    \E batch \in SharedBatches : Begin(t, "insert_many", batch, "insert_many_push")

BeginDelete(t) ==
    \E x \in SharedInstances : Begin(t, "delete_instance", <<x>>, "delete_remove")

BeginClear(t) == Begin(t, "clear_instance", <<>>, "clear_list")

\* if self.instance_list.is_empty() { return None; }
SelectIsEmpty(t) ==
    /\ pc[t] = "select_is_empty"
    /\ IF instance_list = <<>>
       THEN Return(t, FALSE, <<>>)
       ELSE Goto(t, "select_fetch_add") /\ UNCHANGED local
    /\ UNCHANGED <<instance_list, cur_idx, select_queue, lock, published>>

\* let idx = self.cur_idx.fetch_add(1, Ordering::Relaxed);
SelectFetchAdd(t) ==
    /\ pc[t] = "select_fetch_add"
    /\ local' = [local EXCEPT ![t].idx = cur_idx]
    /\ cur_idx' = cur_idx + 1
    /\ Goto(t, "select_read_lock")
    /\ UNCHANGED <<instance_list, select_queue, lock, published>>

\* let read_lock = self.select_queue.read()
SelectReadLock(t) ==
    /\ pc[t] = "select_read_lock"
    /\ lock.writer = {}
    /\ t \notin lock.readers
    /\ lock' = [lock EXCEPT !.readers = @ \cup {t}]
    /\ Goto(t, "select_index")
    /\ UNCHANGED <<instance_list, cur_idx, select_queue, local, published>>

\* idx % read_lock.len(), read_lock.get(selected_seq_idx)?; the remainder
\* by zero panics and the unwinding drops the guard
SelectIndex(t) ==
    /\ pc[t] = "select_index"
    /\ IF Len(select_queue) = 0
       THEN /\ Goto(t, "panicked")
            /\ lock' = [lock EXCEPT !.readers = @ \ {t}]
            /\ UNCHANGED local
       ELSE /\ Goto(t, "select_get")
            /\ local' = [local EXCEPT
                   ![t].slot = select_queue[(local[t].idx % Len(select_queue)) + 1]]
            /\ UNCHANGED lock
    /\ UNCHANGED <<instance_list, cur_idx, select_queue, published>>

\* self.instance_list.get(*selected_instance_idx); the guard is dropped as
\* select returns
SelectGet(t) ==
    /\ pc[t] = "select_get"
    /\ Return(t, FALSE, IF local[t].slot < Len(instance_list)
                        THEN <<instance_list[local[t].slot + 1]>>
                        ELSE <<>>)
    /\ lock' = [lock EXCEPT !.readers = @ \ {t}]
    /\ UNCHANGED <<instance_list, cur_idx, select_queue, published>>

\* let r = self.insert_uncalculated(instance.into());
InsertPush(t) ==
    /\ pc[t] = "insert_push"
    /\ \E r \in {insert_uncalculated(instance_list, local[t].arg[1])} :
           /\ instance_list' = r.list
           /\ local' = [local EXCEPT ![t].res = r.res]
    /\ Goto(t, "recalculate")
    /\ UNCHANGED <<cur_idx, select_queue, lock, published>>

\* let r = instance_list.into_iter().map(..insert_uncalculated..).all(|t| t);
InsertManyPush(t) ==
    /\ pc[t] = "insert_many_push"
    /\ \E r \in {insert_all(instance_list, local[t].arg)} :
           /\ instance_list' = r.list
           /\ local' = [local EXCEPT ![t].res = r.res]
    /\ Goto(t, "recalculate")
    /\ UNCHANGED <<cur_idx, select_queue, lock, published>>

\* if self.delete_uncalculated(instance) { .. true } else { false }
DeleteRemove(t) ==
    /\ pc[t] = "delete_remove"
    /\ \E r \in {delete_uncalculated(instance_list, local[t].arg[1])} :
           /\ instance_list' = r.list
           /\ IF r.panic
              THEN Goto(t, "panicked") /\ UNCHANGED local
              ELSE IF r.res
                   THEN /\ Goto(t, "recalculate")
                        /\ local' = [local EXCEPT ![t].res = TRUE]
                   ELSE Return(t, FALSE, <<>>)
    /\ UNCHANGED <<cur_idx, select_queue, lock, published>>

\* recalculate_queue up to the lock: the tokio backend turns to
\* clear_instance on an empty list, otherwise lcm + 1 selections are
\* collected in the local queue
Recalculate(t) ==
    /\ pc[t] = "recalculate"
    /\ IF feature = "tokio" /\ instance_list = <<>>
       THEN Goto(t, "clear_list") /\ UNCHANGED local
       ELSE /\ Goto(t, "write_lock")
            /\ \E queue \in {calculated_queue(instance_list)} :
                   local' = [local EXCEPT ![t].full = queue, ![t].queue = queue]
    /\ UNCHANGED <<instance_list, cur_idx, select_queue, lock, published>>

\* let mut queue_lock = self.select_queue.write()
WriteLock(t) ==
    /\ pc[t] = "write_lock"
    /\ lock.writer = {}
    /\ lock.readers = {}
    /\ lock' = [lock EXCEPT !.writer = {t}]
    /\ Goto(t, "queue_clear")
    /\ UNCHANGED <<instance_list, cur_idx, select_queue, local, published>>

\* mutation: the refill without queue_lock.clear()
QueueClear_keeps(t) ==
    /\ pc[t] = "queue_clear"
    /\ Goto(t, "queue_push")
    /\ UNCHANGED <<instance_list, cur_idx, select_queue, lock, local, published>>

\* queue_lock.clear();
QueueClear(t) ==
    /\ pc[t] = "queue_clear"
    /\ select_queue' = <<>>
    /\ Goto(t, "queue_push")
    /\ UNCHANGED <<instance_list, cur_idx, lock, local, published>>

\* for i in queue { queue_lock.push(i); }
QueuePush(t) ==
    /\ pc[t] = "queue_push"
    /\ local[t].queue # <<>>
    /\ select_queue' = Append(select_queue, Head(local[t].queue))
    /\ local' = [local EXCEPT ![t].queue = Tail(@)]
    /\ Quiet
    /\ UNCHANGED <<instance_list, cur_idx, lock, pc, published>>

\* recalculate_queue returns: the write guard is dropped, the caller returns r
QueueUnlock(t) ==
    /\ pc[t] = "queue_push"
    /\ local[t].queue = <<>>
    /\ lock' = [lock EXCEPT !.writer = @ \ {t}]
    /\ published' = local[t].full
    /\ Return(t, local[t].res, <<>>)
    /\ UNCHANGED <<instance_list, cur_idx, select_queue>>

\* self.instance_list = Vec::new();
ClearList(t) ==
    /\ pc[t] = "clear_list"
    /\ instance_list' = <<>>
    /\ Goto(t, "clear_idx")
    /\ UNCHANGED <<cur_idx, select_queue, lock, local, published>>

\* self.cur_idx = AtomicUsize::new(0);
ClearIdx(t) ==
    /\ pc[t] = "clear_idx"
    /\ cur_idx' = 0
    /\ Goto(t, "clear_queue")
    /\ UNCHANGED <<instance_list, select_queue, lock, local, published>>

\* self.select_queue = Default::default(); the call returns
ClearQueue(t) ==
    /\ pc[t] = "clear_queue"
    /\ select_queue' = <<>>
    /\ lock' = Unlocked
    /\ published' = <<>>
    /\ Return(t, local[t].res, <<>>)
    /\ UNCHANGED <<instance_list, cur_idx>>

Step(t) ==
    \/ BeginSelect(t) \/ BeginInsert(t) \/ BeginInsertMany(t)
    \/ BeginDelete(t) \/ BeginClear(t)
    \/ SelectIsEmpty(t) \/ SelectFetchAdd(t) \/ SelectReadLock(t)
    \/ SelectIndex(t) \/ SelectGet(t)
    \/ InsertPush(t) \/ InsertManyPush(t) \/ DeleteRemove(t)
    \/ Recalculate(t) \/ WriteLock(t) \/ QueueClear(t) \/ QueuePush(t)
    \/ QueueUnlock(t)
    \/ ClearList(t) \/ ClearIdx(t) \/ ClearQueue(t)

NextThreads == \E t \in Threads : Step(t)

SpecThreads == Init /\ [][NextThreads]_vars

\* ================================================================== claims
\* the candidate the schedule of queue value q assigns to counter value c
Returned(q, c) == q.list[q.queue[(c % Len(q.queue)) + 1] + 1]

\* the last call was a select on a non-empty candidate list (select leaves
\* the candidate list as it is)
SelectServed == last.op = "select" /\ instance_list # <<>>

\* C1: whenever the candidate list is non-empty, select does not panic
\* (no modulo by zero, no out-of-range lookup), returns Some, and what it
\* returns is an element of the current candidate list.
C1_SelectReturnsCandidate ==
    SelectServed =>
        /\ ~panicked
        /\ Len(last.sel) = 1
        /\ \E i \in 1..Len(instance_list) : instance_list[i] = last.sel[1]

C1_Witness ==
    /\ SelectServed
    /\ Len(instance_list) >= 2
    /\ ~fresh
    /\ last.idx >= Len(select_queue)
    /\ Len(last.sel) = 1

\* C2: after every public operation, an empty candidate list means an empty
\* published schedule, and select on it returns None.
C2_EmptyListEmptySchedule ==
    /\ instance_list = <<>> => select_queue = <<>>
    /\ (last.op = "select" /\ instance_list = <<>>) => last.sel = <<>>

\* C3: insert(c) returns false and changes neither the candidate list nor
\* the schedule when a candidate with c's data is present, whatever its
\* weight; the candidate list never holds two entries with the same data.
HoldsData(list, d) == \E i \in 1..Len(list) : list[i].data = d

UniqueData(list) ==
    \A i, j \in 1..Len(list) : list[i].data = list[j].data => i = j

C3_DuplicateDataRejected ==
    [][/\ \A x \in Candidates :
              (insert(x) /\ HoldsData(instance_list, x.data)) =>
                  /\ last'.res = FALSE
                  /\ UNCHANGED <<instance_list, select_queue>>
       /\ UniqueData(instance_list')]_vars

\* C4: insert_many(list) applies the insert rule to every element in order:
\* afterwards every element of list is present (it was a duplicate at its
\* turn or it was appended, also after an earlier duplicate), and the result
\* is true exactly when no element was a duplicate at its turn.  Stated so
\* that it follows from the claim whether a duplicate is a candidate with
\* the same data or one with the same data and weight: every element's data
\* is present afterwards, the result is true when no data repeats, and false
\* when an element repeats with data and weight.
NoRepeatedData(list, batch) ==
    \A i \in 1..Len(batch) :
        /\ ~HoldsData(list, batch[i].data)
        /\ \A j \in 1..(i - 1) : batch[j].data # batch[i].data

SomeRepeatedInstance(list, batch) ==
    \E i \in 1..Len(batch) :
        \/ contains(list, batch[i])
        \/ \E j \in 1..(i - 1) : InstanceEq(batch[j], batch[i])

C4_InsertManyInsertsEach ==
    [][\A batch \in Batches :
           insert_many(batch) =>
               /\ \A i \in 1..Len(batch) : HoldsData(instance_list', batch[i].data)
               /\ NoRepeatedData(instance_list, batch) => last'.res = TRUE
               /\ SomeRepeatedInstance(instance_list, batch) => last'.res = FALSE]_vars

\* C5: delete_instance(c) on a queue holding a candidate equal to c removes
\* one candidate with c's data, publishes the schedule of the remaining
\* candidates and returns true (so no later select returns it).
C5_DeleteRemovesPresent ==
    [][\A x \in Candidates :
           (delete_instance(x) /\ contains(instance_list, x)) =>
               /\ ~panicked'
               /\ last'.res = TRUE
               /\ \E k \in 1..Len(instance_list) :
                      /\ instance_list[k].data = x.data
                      /\ instance_list' = remove(instance_list, k - 1)
               /\ instance_list' # <<>> =>
                      select_queue' = calculated_queue(instance_list')]_vars

\* C6: delete_instance(c) on a queue holding no candidate equal to c (an
\* empty queue included) does not panic, returns false and leaves candidate
\* list, cursor and schedule as they were.
C6_DeleteAbsentIsNoop ==
    [][\A x \in Candidates :
           (delete_instance(x) /\ ~HoldsData(instance_list, x.data)) =>
               /\ ~panicked'
               /\ last'.res = FALSE
               /\ UNCHANGED <<instance_list, cur_idx, select_queue>>]_vars

\* C7: clear_instance leaves candidate list and schedule empty and the
\* cursor 0, whatever the state before; a select on the cleared queue
\* returns None and changes nothing; the cursor is 0 as long as the list is
\* empty, so the first select after a later insert takes counter value 0 and
\* serves position 0 of the new schedule.
C7_ClearResets ==
    [][/\ clear_instance => This' = Queue(<<>>, 0, <<>>)
       /\ instance_list' = <<>> => cur_idx' = 0
       /\ (select /\ instance_list = <<>>) =>
              (last'.sel = <<>> /\ This' = This /\ ~panicked')
       /\ (select /\ instance_list # <<>> /\ cur_idx = 0) =>
              last'.sel = <<instance_list[select_queue[1] + 1]>>]_vars

C7_Witness ==
    /\ last.op = "clear_instance"
    /\ last.idx > 0
    /\ This = Queue(<<>>, 0, <<>>)

\* C8: a select that obtains counter value c returns
\* candidates[schedule[c mod len(schedule)]], advances the counter by one
\* and changes nothing else; the counter equals the number of selects served
\* since construction or the last clear_instance (no other operation resets
\* it); for a:1, b:2 the results are b, a, b repeating.
ListAB == <<new_with_weight("a", 1), new_with_weight("b", 2)>>

C8_SelectWalksSchedule ==
    [][/\ (select /\ instance_list # <<>>) =>
              /\ ~panicked'
              /\ last'.idx = cur_idx
              /\ last'.sel = <<Returned(This, cur_idx)>>
              /\ This' = Queue(instance_list, cur_idx + 1, select_queue)
       /\ cur_idx' = selects'
       /\ (select /\ instance_list = ListAB) =>
              last'.sel[1].data = <<"b", "a", "b">>[(cur_idx % 3) + 1]]_vars

C8_Witness ==
    /\ SelectServed
    /\ instance_list = ListAB
    /\ ~fresh
    /\ last.idx = Len(select_queue)
    /\ last.sel = <<new_with_weight("b", 2)>>

\* C9: n >= 1 candidates of one weight w >= 1 inserted into an empty queue
\* are served in strict round robin: the k-th select returns the candidate
\* at insertion position k mod n, for every k.
SameWeights(list) == \A i, j \in 1..Len(list) : list[i].weight = list[j].weight

C9_EqualWeightsRoundRobin ==
    (SelectServed /\ fresh /\ SameWeights(instance_list)) =>
        last.sel = <<instance_list[(last.idx % Len(instance_list)) + 1]>>

\* C10: after insert_many([a:1, b:2]), insert(c:3), insert_many([d:5, e:2])
\* on an empty queue the schedule has 13 entries and the k-th select returns
\* d, c, b, d, e, d, c, a, d, b, e, c, d at position k mod 13, for every k.
C10_ComplexSchedule ==
    (instance_list = ComplexList /\ fresh) =>
        /\ Len(select_queue) = 13
        /\ SelectServed =>
               /\ Len(last.sel) = 1
               /\ last.sel[1].data = ComplexExpected[(last.idx % 13) + 1]

\* ------------------------------------------ arithmetic used by C11..C18
RECURSIVE SumSeq(_)
SumSeq(ws) == IF ws = <<>> THEN 0 ELSE Head(ws) + SumSeq(Tail(ws))

RECURSIVE ProdSeq(_)
ProdSeq(ws) == IF ws = <<>> THEN 1 ELSE Head(ws) * ProdSeq(Tail(ws))

\* the least positive multiple of every weight, by its definition
LeastCommonMultiple(ws) ==
    CHOOSE m \in 1..ProdSeq(ws) :
        /\ \A i \in 1..Len(ws) : m % ws[i] = 0
        /\ \A k \in 1..(m - 1) : \E i \in 1..Len(ws) : k % ws[i] # 0

Abs(x) == IF x < 0 THEN -x ELSE x

\* how often the 0-based index i occurs in seq
Occurrences(i, seq) == Cardinality({k \in 1..Len(seq) : seq[k] = i})

Weights == weight_vec(instance_list)

Indices == 0..(Len(instance_list) - 1)

\* a rebuild of a non-empty candidate list has published its schedule
Published == ~compiler.active /\ instance_list # <<>> /\ select_queue # <<>>

\* the lowest 1-based position among the largest counters
ArgMaxLowest(cur) ==
    CHOOSE i \in 1..Len(cur) :
        /\ \A j \in 1..Len(cur) : cur[j] <= cur[i]
        /\ \A j \in 1..(i - 1) : cur[j] < cur[i]

\* the procedure of the specification, n steps from the counters cur
RECURSIVE ReferenceSchedule(_, _, _)
ReferenceSchedule(ws, cur, n) ==
    IF n = 0
    THEN <<>>
    ELSE LET inc == [i \in 1..Len(ws) |-> cur[i] + ws[i]]
             sel == ArgMaxLowest(inc)
         IN  <<sel - 1>> \o
             ReferenceSchedule(ws, [inc EXCEPT ![sel] = @ - SumSeq(ws)], n - 1)

Zeros(ws) == [i \in 1..Len(ws) |-> 0]

\* C11: no candidate is starved: every index of the candidate list occurs in
\* the published schedule (so repeated selects return every candidate again
\* and again).
C11_EveryCandidateScheduled ==
    Published => \A i \in Indices : Occurrences(i, select_queue) >= 1

C13_ShareWithinRounding ==
    Published =>
        \A i \in Indices :
            Abs(Occurrences(i, select_queue) * SumSeq(Weights)
                - (LeastCommonMultiple(Weights) + 1) * Weights[i + 1])
            < SumSeq(Weights)

C13_Witness ==
    /\ Published
    /\ Len(instance_list) = 3
    /\ ~SameWeights(instance_list)
    /\ \E i \in Indices :
           Occurrences(i, select_queue) * SumSeq(Weights)
               # Len(select_queue) * Weights[i + 1]
    /\ cur_idx = Len(select_queue)

\* C16: the published schedule is the output of the reference procedure run
\* for lcm+1 steps from running counters that are all 0.
C16_ReferenceFromZero ==
    Published =>
        select_queue = ReferenceSchedule(Weights, Zeros(Weights),
                                         LeastCommonMultiple(Weights) + 1)

\* C16 as amended: the published schedule is the output of the reference
\* procedure run for lcm+1 steps from running counters that start at the
\* weights (current[i] = w_i).
C16_ReferenceFromWeights ==
    Published =>
        select_queue = ReferenceSchedule(Weights, Weights,
                                         LeastCommonMultiple(Weights) + 1)

C16_Witness ==
    /\ Published
    /\ Len(instance_list) >= 2
    /\ select_queue # ReferenceSchedule(Weights, Zeros(Weights),
                                        LeastCommonMultiple(Weights) + 1)

\* C17: after every insert, insert_many or successful delete_instance that
\* leaves the candidate list non-empty the published schedule has lcm+1
\* entries, each an index of the current list, and it is the schedule of the
\* current candidates and weights.
C17_ScheduleIsCurrent ==
    (/\ last.op \in {"insert", "insert_many", "delete_instance"}
     /\ last.op = "delete_instance" => last.res
     /\ ~compiler.active
     /\ instance_list # <<>>) =>
        /\ Len(select_queue) = LeastCommonMultiple(Weights) + 1
        /\ \A k \in 1..Len(select_queue) : select_queue[k] \in Indices
        /\ select_queue = ReferenceSchedule(Weights, Weights, Len(select_queue))

C17_Witness ==
    /\ last.op = "insert"
    /\ last.res
    /\ ~fresh
    /\ Len(instance_list) = 2
    /\ ~SameWeights(instance_list)
    /\ Len(select_queue) = 3

\* C18: a step of the schedule compiler chooses the lowest index among the
\* largest counters after every counter has grown by its weight, reduces
\* only that counter, by the total weight, and so leaves the sum of the
\* counters as it was.
C18_StepChoosesLowestMax ==
    [][CompileStep =>
           LET inc == [i \in 1..Len(Weights) |-> compiler.cur[i] + Weights[i]]
               chosen == compiler'.queue[Len(compiler'.queue)]
           IN  /\ chosen + 1 = ArgMaxLowest(inc)
               /\ compiler'.cur = [inc EXCEPT ![chosen + 1] = @ - SumSeq(Weights)]
               /\ SumSeq(compiler'.cur) = SumSeq(compiler.cur)]_vars

C18_Witness ==
    /\ compiler.active
    /\ Len(compiler.queue) >= 2
    /\ Len(instance_list) = 3
    /\ \E i, j \in 1..3 : i < j /\ compiler.cur[i] + Weights[i] = compiler.cur[j] + Weights[j]
                          /\ \A k \in 1..3 : compiler.cur[k] + Weights[k] <= compiler.cur[i] + Weights[i]

\* C20: the blocking and the tokio backend are the same state machine: given
\* the same calls, two queues built with the two backends return the same
\* value from every call (the bool, the selected candidate, the panic) and
\* hold the same candidate list, cursor and schedule after every call,
\* insert_many with an empty list on an empty queue included.
C20_BackendsAgree ==
    /\ twin.q = This
    /\ twin.res = last.res
    /\ twin.sel = last.sel
    /\ twin.panic = panicked

C19_StartedCallsComplete ==
    /\ \A t \in Threads : pc[t] # "panicked"
    /\ \A t \in Threads :
           pc[t] \in {"select_read_lock", "write_lock"} =>
               t \notin lock.readers \cup lock.writer
    /\ Borrowed => ENABLED NextThreads

====
